---- MODULE Spec2Model ----
(***************************************************************************)
(* A model of the normalization engine of ai-change-watcher               *)
(* (src/normalizers.py) and of the base-URL resolution of the feed        *)
(* writer (src/generate_rss.py).                                           *)
(*                                                                         *)
(* Text is a sequence of characters; a character is a one-character       *)
(* string, or a name ("NUL", "DEL", "TAB", "LF", "ZWSP") for a character   *)
(* that has no printable form.  Code(c) is its Unicode code point.         *)
(***************************************************************************)
EXTENDS Integers, Sequences, FiniteSets, TLC

VARIABLES
    pc,         \* position of the running call: "start", ..., "done"
    xml_text,   \* _clean_xml_for_et: the argument
    cleaned,    \* _clean_xml_for_et: the returned text
    environ,    \* os.environ as generate_rss.py reads it
    base,       \* guess_base_url: the returned URL
    yaml_installed, \* whether "import yaml" succeeds in this process
    yaml_text,  \* normalize_openapi_c14n_v1: the fetched document
    yaml_copy,  \* the same document with its servers in another order
    yaml_out,   \* the outcome of the call on yaml_text
    copy_out,   \* the outcome of the call on yaml_copy
    rss_text,   \* normalize_rss_min: the fetched feed document
    body_limit, \* normalize_rss_min: the body limit
    root,       \* normalize_rss_min: the parsed tree, or none
    stages,     \* the stages the call has run, in order
    extracted,  \* the FeedItems in the order the extraction loops append them
    items,      \* the FeedItems after items.sort
    result,     \* the outcome of the call
    history,    \* the earlier normalization calls, with their outcomes
    last_call   \* the latest call

cleanVars == <<xml_text, cleaned>>
baseVars == <<environ, base>>
yamlVars == <<yaml_installed, yaml_text, yaml_copy, yaml_out, copy_out>>
rssVars == <<rss_text, body_limit, root, stages, extracted, items, result>>
pureVars == <<history, last_call>>
vars == <<pc, cleanVars, baseVars, yamlVars, rssVars, pureVars>>

(***************************************************************************)
(* Bounds                                                                  *)
(***************************************************************************)
\* longest raw text handed to _clean_xml_for_et
MaxLen == 5
\* longest value of the GITHUB_REPOSITORY variable
MaxRepoLen == 3
\* longest servers list of an OpenAPI document
MaxServers == 2
\* most <item> and <entry> elements of a feed document
MaxItems == 2
\* largest body limit passed to normalize_rss_min
MaxLimit == 2

(***************************************************************************)
(* Values of the state, and the state of the calls that are not running    *)
(***************************************************************************)
StrV(chars) == [t |-> "str", v |-> chars]
IntV(digits) == [t |-> "int", v |-> digits]
NullV == [t |-> "null", v |-> <<>>]
DateV == [t |-> "date", v |-> <<"2", "0", "2", "0", ",", " ", "1", ",", " ", "1">>]
SeqV(elems) == [t |-> "seq", v |-> elems]
MapV(pairs) == [t |-> "map", v |-> pairs]

NoText == [parses |-> FALSE, value |-> NullV, id |-> 0]
ReturnInput(text) == [kind |-> "input", input |-> text, chars |-> <<>>]
ReturnString(chars) == [kind |-> "string", input |-> NoText, chars |-> chars]
Raise == [kind |-> "raise", input |-> NoText, chars |-> <<>>]
NoOutcome == [kind |-> "none", input |-> NoText, chars |-> <<>>]

Unset == [set |-> FALSE, val |-> <<>>]

CleanIdle == xml_text = <<>> /\ cleaned = <<>>
BaseIdle == environ = [GITHUB_REPOSITORY |-> Unset, BASE_URL |-> Unset] /\ base = <<>>

YamlIdle ==
    /\ yaml_installed = TRUE
    /\ yaml_text = NoText /\ yaml_copy = NoText
    /\ yaml_out = NoOutcome /\ copy_out = NoOutcome

\* A feed document is [elements, broken]: its <item> and <entry> elements in
\* document order, and whether a tag outside them is left unterminated.
EmptyFeed == [elements |-> <<>>, broken |-> FALSE]
NoRoot == [ok |-> FALSE, tree |-> EmptyFeed]

RssIdle ==
    /\ rss_text = EmptyFeed /\ body_limit = 0 /\ root = NoRoot
    /\ stages = <<>> /\ extracted = <<>> /\ items = <<>> /\ result = NoOutcome

\* A normalization call is [target, kind, feed, yaml, limit, outcome]: feed is
\* the text of an rss_min call, yaml that of an openapi_c14n_v1 call.
NoCall ==
    [target |-> 0, kind |-> "none", feed |-> EmptyFeed, yaml |-> NoText,
     limit |-> 0, outcome |-> NoOutcome]

PureIdle == history = {} /\ last_call = NoCall

(***************************************************************************)
(* Characters                                                              *)
(***************************************************************************)
Lower ==
    <<"a", "b", "c", "d", "e", "f", "g", "h", "i", "j", "k", "l", "m",
      "n", "o", "p", "q", "r", "s", "t", "u", "v", "w", "x", "y", "z">>

\* ord(c)
Code(c) ==
    IF \E i \in 1..26 : Lower[i] = c
    THEN 96 + (CHOOSE i \in 1..26 : Lower[i] = c)
    ELSE CASE c = "NUL" -> 0
           [] c = "TAB" -> 9
           [] c = "LF" -> 10
           [] c = " " -> 32
           [] c = "\"" -> 34
           [] c = "#" -> 35
           [] c = "&" -> 38
           [] c = "'" -> 39
           [] c = "(" -> 40
           [] c = ")" -> 41
           [] c = "," -> 44
           [] c = "." -> 46
           [] c = "/" -> 47
           [] c = "0" -> 48
           [] c = "1" -> 49
           [] c = "2" -> 50
           [] c = ":" -> 58
           [] c = ";" -> 59
           [] c = "N" -> 78
           [] c = "[" -> 91
           [] c = "]" -> 93
           [] c = "{" -> 123
           [] c = "}" -> 125
           [] c = "DEL" -> 127
           [] c = "ZWSP" -> 8203

\* \d
IsDigit(c) == Code(c) \in 48..57
\* [0-9A-Fa-f]
IsHex(c) == Code(c) \in (48..57) \cup (65..70) \cup (97..102)
\* [A-Za-z]
IsAlpha(c) == Code(c) \in (65..90) \cup (97..122)
\* [A-Za-z0-9]
IsAlnum(c) == IsAlpha(c) \/ IsDigit(c)

RECURSIVE Concat(_)
\* "".join(parts)
Concat(parts) ==
    IF parts = <<>> THEN <<>> ELSE Head(parts) \o Concat(Tail(parts))

(***************************************************************************)
(* _clean_xml_for_et (normalizers.py 16-23)                                *)
(***************************************************************************)
\* the character class [\x00-\x08\x0B\x0C\x0E-\x1F\x7F] of line 20
StrippedByClean(c) ==
    Code(c) \in (0..8) \cup {11, 12} \cup (14..31) \cup {127}

\* re.sub(r"[\x00-\x08\x0B\x0C\x0E-\x1F\x7F]", "", s)
StripControl(s) == SelectSeq(s, LAMBDA c : ~StrippedByClean(c))

RECURSIVE RunEnd(_, _, _, _)
\* A greedy run X+ from position i: the position just after the longest run of
\* characters of class digit / hex / alnum, or i when the run is empty.
RunEnd(s, i, cls, n) ==
    IF i <= n /\ ( \/ (cls = "digit" /\ IsDigit(s[i]))
                   \/ (cls = "hex" /\ IsHex(s[i]))
                   \/ (cls = "alnum" /\ IsAlnum(s[i])) )
    THEN RunEnd(s, i + 1, cls, n)
    ELSE i

\* X+; at position i: the run is not empty and a ';' follows it.  The classes
\* hold no ';', so the greedy run is the only one a ';' can follow.
RunThenSemi(s, i, cls) ==
    LET n == Len(s)
        e == RunEnd(s, i, cls, n)
    IN  e > i /\ e <= n /\ s[e] = ";"

\* The lookahead of line 22 at position i (the character after an '&'):
\* #\d+; | #x[0-9A-Fa-f]+; | [A-Za-z][A-Za-z0-9]+;
EntityLookahead(s, i) ==
    LET n == Len(s)
    IN  \/ i <= n /\ s[i] = "#" /\ RunThenSemi(s, i + 1, "digit")
        \/ i + 1 <= n /\ s[i] = "#" /\ s[i + 1] = "x" /\ RunThenSemi(s, i + 2, "hex")
        \/ i <= n /\ IsAlpha(s[i]) /\ RunThenSemi(s, i + 1, "alnum")

AMP == <<"&", "a", "m", "p", ";">>

\* re.sub(r"&(?!...)", "&amp;", s): every match is one '&' and the lookahead
\* reads the unsubstituted text.
EscapeBareAmp(s) ==
    Concat([i \in 1..Len(s) |->
              IF s[i] = "&" /\ ~EntityLookahead(s, i + 1) THEN AMP ELSE <<s[i]>>])

\* mutant: every '&' is escaped, also one that begins an entity reference
EscapeEveryAmp(s) ==
    Concat([i \in 1..Len(s) |-> IF s[i] = "&" THEN AMP ELSE <<s[i]>>])

clean_xml_mutant(s) == EscapeEveryAmp(StripControl(s))

_clean_xml_for_et(s) == EscapeBareAmp(StripControl(s))

(***************************************************************************)
(* SpecClean: one call of _clean_xml_for_et on an arbitrary raw text       *)
(***************************************************************************)
CleanAlphabet == {"a", "1", "x", "&", "#", ";", "NUL", "TAB", "DEL"}

SeqsUpTo(S, n) == UNION {[1..k -> S] : k \in 0..n}

InitClean ==
    /\ pc = "start"
    /\ xml_text \in SeqsUpTo(CleanAlphabet, MaxLen)
    /\ cleaned = <<>>
    /\ BaseIdle
    /\ YamlIdle
    /\ RssIdle
    /\ PureIdle

CallClean ==
    /\ pc = "start"
    /\ cleaned' = _clean_xml_for_et(xml_text)
    /\ pc' = "done"
    /\ UNCHANGED <<xml_text, baseVars, yamlVars, rssVars, pureVars>>

SpecClean == InitClean /\ [][CallClean]_vars

(***************************************************************************)
(* C10                                                                     *)
(***************************************************************************)
\* XML 1.0 Char excludes #x0-#x8, #xB, #xC, #xE-#x1F; #x7F is a Char.
XmlDisallowedControl(c) == Code(c) \in (0..8) \cup {11, 12} \cup (14..31)

\* s[i] is an '&' that begins "&#digits;", "&#xhex;" or "&name;", the name a
\* letter followed by letters and digits, at least minName characters long.
BeginsRef(s, i, minName) ==
    /\ s[i] = "&"
    /\ \E j \in (i + 1)..Len(s) :
          /\ s[j] = ";"
          /\ LET body == SubSeq(s, i + 1, j - 1)
                 m == Len(body)
             IN  \/ m >= 2 /\ body[1] = "#" /\ \A k \in 2..m : IsDigit(body[k])
                 \/ m >= 3 /\ body[1] = "#" /\ body[2] = "x"
                           /\ \A k \in 3..m : IsHex(body[k])
                 \/ m >= minName /\ IsAlpha(body[1]) /\ \A k \in 2..m : IsAlnum(body[k])

\* The repair as the claim words it: t is the text without the characters of
\* class removed; r has none of them, each '&' of r begins a reference, and r
\* is t with exactly the '&' that begin no reference replaced by "&amp;".
RepairedAsClaimed(text, r, removed(_), minName) ==
    LET t == SelectSeq(text, LAMBDA c : ~removed(c))
    IN  /\ \A i \in 1..Len(r) : ~removed(r[i])
        /\ \A i \in 1..Len(r) : r[i] = "&" => BeginsRef(r, i, minName)
        /\ r = Concat([i \in 1..Len(t) |->
                        IF t[i] = "&" /\ ~BeginsRef(t, i, minName) THEN AMP ELSE <<t[i]>>])

RemovedAmended(c) == XmlDisallowedControl(c) \/ Code(c) = 127

EnvGet(env, name) == IF env[name].set THEN env[name].val ELSE <<>>

\* str.find: the first position of character c in s, 0 when there is none
FirstIndex(s, c) ==
    IF \E i \in 1..Len(s) : s[i] = c
    THEN CHOOSE i \in 1..Len(s) : s[i] = c /\ \A j \in 1..(i - 1) : s[j] # c
    ELSE 0

\* mutant: rsplit, the last position of c
LastIndex(s, c) ==
    IF \E i \in 1..Len(s) : s[i] = c
    THEN CHOOSE i \in 1..Len(s) : s[i] = c /\ \A j \in (i + 1)..Len(s) : s[j] # c
    ELSE 0

\* repo.split("/", 1) of a repo that holds a "/": <<owner, name>>
SplitOnceAt(repo, i) == <<SubSeq(repo, 1, i - 1), SubSeq(repo, i + 1, Len(repo))>>

SplitAtLast(repo) == SplitOnceAt(repo, LastIndex(repo, "/"))

SplitOnce(repo) == SplitOnceAt(repo, FirstIndex(repo, "/"))

guess_base_url(env) ==
    LET repo == EnvGet(env, "GITHUB_REPOSITORY")
    IN  IF repo # <<>> /\ FirstIndex(repo, "/") # 0
        THEN <<"https://">> \o SplitOnce(repo)[1] \o <<".github.io/">>
                 \o SplitOnce(repo)[2] \o <<"/">>
        ELSE <<"http://localhost/">>

(***************************************************************************)
(* SpecBase: main() resolves the base link under an arbitrary environment  *)
(***************************************************************************)
RepoAlphabet == {"o", "n", "/"}

EnvValues(S) == {Unset} \cup {[set |-> TRUE, val |-> v] : v \in S}

InitBase ==
    /\ pc = "start"
    /\ environ \in [GITHUB_REPOSITORY : EnvValues(SeqsUpTo(RepoAlphabet, MaxRepoLen)),
                     BASE_URL : EnvValues({<<"https://example.org/">>})]
    /\ base = <<>>
    /\ CleanIdle
    /\ YamlIdle
    /\ RssIdle
    /\ PureIdle

\* main(), line 124: base = guess_base_url()
MainResolveBase ==
    /\ pc = "start"
    /\ base' = guess_base_url(environ)
    /\ pc' = "done"
    /\ UNCHANGED <<environ, cleanVars, yamlVars, rssVars, pureVars>>

SpecBase == InitBase /\ [][MainResolveBase]_vars

(***************************************************************************)
(* C9                                                                      *)
(***************************************************************************)
HasSlash(s) == \E i \in 1..Len(s) : s[i] = "/"

\* the URL https://<owner>.github.io/<name>/ of a slug owner/name, the owner
\* being what precedes the first "/"
IsPagesUrl(url, slug) ==
    \E i \in 1..Len(slug) :
        /\ slug[i] = "/"
        /\ ~HasSlash(SubSeq(slug, 1, i - 1))
        /\ url = <<"https://">> \o SubSeq(slug, 1, i - 1) \o <<".github.io/">>
                    \o SubSeq(slug, i + 1, Len(slug)) \o <<"/">>

\* C9 as stated: three levels; a set override variable wins, then the
\* repository slug, then http://localhost/.
C9_AsStated ==
    pc = "done" =>
        LET slug == EnvGet(environ, "GITHUB_REPOSITORY")
        IN  IF environ.BASE_URL.set THEN base = environ.BASE_URL.val
            ELSE IF HasSlash(slug) THEN IsPagesUrl(base, slug)
            ELSE base = <<"http://localhost/">>

\* C9 amended: two levels; no override variable is read.  When the
\* repository-slug variable holds a "/" the URL is
\* https://<owner>.github.io/<name>/ (split at the first "/"), otherwise it
\* is http://localhost/, whatever else the environment sets.
C9_TwoLevels ==
    pc = "done" =>
        LET slug == EnvGet(environ, "GITHUB_REPOSITORY")
        IN  IF HasSlash(slug) THEN IsPagesUrl(base, slug)
            ELSE base = <<"http://localhost/">>

\* the base is resolved from an owner/name slug while an override is set
C9_Witness ==
    /\ pc = "done"
    /\ environ.BASE_URL.set
    /\ environ.GITHUB_REPOSITORY.val = <<"o", "/", "n">>
    /\ base = <<"https://", "o", ".github.io/", "n", "/">>

(***************************************************************************)
(* YAML values as yaml.safe_load returns them.  A value is [t, v]: a       *)
(* string (v its characters), an integer (v its digits), null, a date (a   *)
(* YAML timestamp; v the arguments of its repr), a sequence (v its items)  *)
(* or a mapping (v its <<key, value>> pairs in document order, the keys    *)
(* being strings).                                                         *)
(***************************************************************************)
RECURSIVE LexLess(_, _)
\* a < b for two str values (code point order)
LexLess(a, b) ==
    IF b = <<>> THEN FALSE
    ELSE IF a = <<>> THEN TRUE
    ELSE IF Head(a) = Head(b) THEN LexLess(Tail(a), Tail(b))
    ELSE Code(Head(a)) < Code(Head(b))

HasKey(m, k) == \E i \in 1..Len(m.v) : m.v[i][1] = k

\* dict.get(k, default)
MapGet(m, k, default) ==
    IF HasKey(m, k) THEN m.v[CHOOSE i \in 1..Len(m.v) : m.v[i][1] = k][2] ELSE default

\* bool(value)
Truthy(x) ==
    CASE x.t = "null" -> FALSE
      [] x.t = "int" -> x.v # <<"0">>
      [] x.t = "date" -> TRUE
      [] OTHER -> x.v # <<>>

RECURSIVE JoinWith(_, _)
\* sep.join(parts)
JoinWith(parts, sep) ==
    IF parts = <<>> THEN <<>>
    ELSE IF Len(parts) = 1 THEN parts[1]
    ELSE parts[1] \o sep \o JoinWith(Tail(parts), sep)

RECURSIVE PyRepr(_)
\* repr(value): a mapping is rendered in insertion order
PyRepr(x) ==
    CASE x.t = "str" -> <<"'">> \o x.v \o <<"'">>
      [] x.t = "int" -> x.v
      [] x.t = "null" -> <<"N", "o", "n", "e">>
      [] x.t = "date" ->
            <<"d", "a", "t", "e", "t", "i", "m", "e", ".", "d", "a", "t", "e", "(">>
                \o x.v \o <<")">>
      [] x.t = "seq" ->
            <<"[">> \o JoinWith([i \in 1..Len(x.v) |-> PyRepr(x.v[i])], <<",", " ">>)
                    \o <<"]">>
      [] x.t = "map" ->
            <<"{">> \o JoinWith([i \in 1..Len(x.v) |->
                                   <<"'">> \o x.v[i][1] \o <<"'", ":", " ">>
                                       \o PyRepr(x.v[i][2])], <<",", " ">>)
                    \o <<"}">>

\* str(value)
PyStr(x) == IF x.t = "str" THEN x.v ELSE PyRepr(x)

(***************************************************************************)
(* sorted(obj["servers"], key=lambda s: ((s or {}).get("url", ""), str(s)))*)
(* (normalizers.py 219-222)                                                *)
(***************************************************************************)
URL == <<"u", "r", "l">>

\* (s or {}).get raises AttributeError when s is truthy and no mapping
KeyRaises(s) == Truthy(s) /\ s.t # "map"

\* mutant: the key is the url alone
ServerKeyUrlOnly(s) ==
    <<IF Truthy(s) THEN MapGet(s, URL, StrV(<<>>)) ELSE StrV(<<>>), <<>>>>

\* the key of an entry whose key does not raise
ServerKey(s) ==
    <<IF Truthy(s) THEN MapGet(s, URL, StrV(<<>>)) ELSE StrV(<<>>), PyStr(s)>>

\* x < y raises TypeError, for the url values of the model (strings, integers,
\* null): a string and an integer order only among themselves, None not at
\* all.  Two equal values are never ordered: tuple comparison skips them.
OrderRaises(x, y) ==
    x # y /\ (x.t # y.t \/ x.t \notin {"str", "int"})

\* int(digits) of the one-digit integers of the model
IntOf(digits) == Code(digits[1]) - 48

\* x < y for two values that differ and can be ordered
ValueLess(x, y) ==
    IF x.t = "int" THEN IntOf(x.v) < IntOf(y.v) ELSE LexLess(x.v, y.v)

\* k1 < k2 for two key tuples raises
KeyCompareRaises(k1, k2) == OrderRaises(k1[1], k2[1])

\* k1 < k2 for two key tuples
KeyLess(k1, k2) ==
    IF k1[1] # k2[1] THEN ValueLess(k1[1], k2[1]) ELSE LexLess(k1[2], k2[2])

\* sorted() raises: a key raises, or the sort orders two keys that cannot be
\* ordered.  A comparison sort that ends has compared every two neighbours of
\* its result, so it meets such a pair whenever the list holds one.
SortRaises(servers) ==
    \/ \E i \in 1..Len(servers) : KeyRaises(servers[i])
    \/ \E i, j \in 1..Len(servers) :
          KeyCompareRaises(ServerKey(servers[i]), ServerKey(servers[j]))

RECURSIVE InsertSorted(_, _)
\* s put into the sorted list after every entry that is not greater (stable)
InsertSorted(sorted, s) ==
    IF sorted = <<>> THEN <<s>>
    ELSE IF KeyLess(ServerKey(s), ServerKey(Head(sorted)))
         THEN <<s>> \o sorted
         ELSE <<Head(sorted)>> \o InsertSorted(Tail(sorted), s)

RECURSIVE SortedServers(_)
\* sorted(servers, key=...) when it does not raise: the stable ascending order
SortedServers(servers) ==
    IF servers = <<>> THEN <<>>
    ELSE InsertSorted(SortedServers(SubSeq(servers, 1, Len(servers) - 1)),
                      servers[Len(servers)])

(***************************************************************************)
(* json.dumps(obj, ensure_ascii=False, sort_keys=True, indent=2)           *)
(* (normalizers.py 227)                                                    *)
(***************************************************************************)
RECURSIVE Serializable(_)
\* json.dumps raises TypeError on a value that holds a date
Serializable(x) ==
    CASE x.t = "date" -> FALSE
      [] x.t = "seq" -> \A i \in 1..Len(x.v) : Serializable(x.v[i])
      [] x.t = "map" -> \A i \in 1..Len(x.v) : Serializable(x.v[i][2])
      [] OTHER -> TRUE

RECURSIVE InsertPair(_, _)
InsertPair(sorted, kv) ==
    IF sorted = <<>> THEN <<kv>>
    ELSE IF LexLess(kv[1], Head(sorted)[1])
         THEN <<kv>> \o sorted
         ELSE <<Head(sorted)>> \o InsertPair(Tail(sorted), kv)

RECURSIVE SortPairs(_)
\* sort_keys=True: the items of a mapping by key
SortPairs(pairs) ==
    IF pairs = <<>> THEN <<>>
    ELSE InsertPair(SortPairs(SubSeq(pairs, 1, Len(pairs) - 1)), pairs[Len(pairs)])

\* indent=2: a line break and the indentation of a nesting level
NewLine(level) == <<"LF">> \o [i \in 1..(2 * level) |-> " "]

RECURSIVE JsonDump(_, _)
\* the JSON text of a serializable value at a nesting level
JsonDump(x, level) ==
    CASE x.t = "str" -> <<"\"">> \o x.v \o <<"\"">>
      [] x.t = "int" -> x.v
      [] x.t = "null" -> <<"n", "u", "l", "l">>
      [] x.t = "seq" ->
            IF x.v = <<>> THEN <<"[", "]">>
            ELSE <<"[">> \o NewLine(level + 1)
                   \o JoinWith([i \in 1..Len(x.v) |-> JsonDump(x.v[i], level + 1)],
                               <<",">> \o NewLine(level + 1))
                   \o NewLine(level) \o <<"]">>
      [] x.t = "map" ->
            IF x.v = <<>> THEN <<"{", "}">>
            ELSE LET kvs == SortPairs(x.v)
                 IN  <<"{">> \o NewLine(level + 1)
                       \o JoinWith([i \in 1..Len(kvs) |->
                                      <<"\"">> \o kvs[i][1] \o <<"\"", ":", " ">>
                                          \o JsonDump(kvs[i][2], level + 1)],
                                   <<",">> \o NewLine(level + 1))
                       \o NewLine(level) \o <<"}">>

(***************************************************************************)
(* normalize_openapi_c14n_v1 (normalizers.py 202-227).  A YAML text is     *)
(* [parses, value, id]: whether yaml.safe_load accepts it, the value it    *)
(* returns, and a number that tells unparseable texts apart.  The outcome  *)
(* of a call is [kind, input, chars]: the input returned as is, a string   *)
(* built by the call, or an exception that leaves the function.            *)
(***************************************************************************)
SERVERS == <<"s", "e", "r", "v", "e", "r", "s">>

\* isinstance(obj, dict) and isinstance(obj.get("servers"), list)
HasServersList(obj) ==
    obj.t = "map" /\ HasKey(obj, SERVERS) /\ MapGet(obj, SERVERS, NullV).t = "seq"

\* obj["servers"] = value: the key keeps its place in the mapping
WithServers(obj, servers) ==
    MapV([i \in 1..Len(obj.v) |->
            IF obj.v[i][1] = SERVERS THEN <<SERVERS, SeqV(servers)>> ELSE obj.v[i]])

\* lines 217-224: the servers are sorted, unless sorted() raises
StabilizeServers(obj) ==
    IF HasServersList(obj) /\ ~SortRaises(MapGet(obj, SERVERS, NullV).v)
    THEN WithServers(obj, SortedServers(MapGet(obj, SERVERS, NullV).v))
    ELSE obj

normalize_openapi_c14n_v1(text) ==
    IF ~yaml_installed THEN ReturnInput(text)
    ELSE IF ~text.parses THEN ReturnInput(text)
    ELSE LET obj == StabilizeServers(text.value)
         IN  IF Serializable(obj)
             THEN ReturnString(JsonDump(obj, 0) \o <<"LF">>)
             ELSE Raise

(***************************************************************************)
(* SpecOpenapi: a document and a copy of it with the servers permuted are  *)
(* normalized one after the other                                          *)
(***************************************************************************)
ServerEntries ==
    { MapV(<<<<URL, StrV(<<"a">>)>>>>),
      MapV(<<<<URL, StrV(<<"b">>)>>>>),
      MapV(<<<<URL, StrV(<<"a">>)>>, <<<<"d">>, StrV(<<"x">>)>>>>),
      MapV(<<<<<<"d">>, StrV(<<"x">>)>>, <<URL, StrV(<<"a">>)>>>>),
      MapV(<<<<<<"d">>, StrV(<<"x">>)>>>>),
      MapV(<<<<URL, IntV(<<"1">>)>>>>),
      NullV,
      StrV(<<"b">>) }

TAGS == <<"t", "a", "g", "s">>
INFO == <<"i", "n", "f", "o">>

Parsed(value) == [parses |-> TRUE, value |-> value, id |-> 0]

\* an OpenAPI document: servers, tags, and perhaps a date-valued field
ApiDoc(servers, extra) ==
    Parsed(MapV(<<<<SERVERS, SeqV(servers)>>,
                  <<TAGS, SeqV(<<StrV(<<"b">>), StrV(<<"a">>)>>)>>>> \o extra))

DocExtras == {<<>>, <<<<INFO, DateV>>>>}

\* texts that are no OpenAPI document with a servers list
OtherTexts ==
    { [parses |-> FALSE, value |-> NullV, id |-> 1],
      [parses |-> FALSE, value |-> NullV, id |-> 2],
      Parsed(NullV),
      Parsed(SeqV(<<StrV(<<"b">>), StrV(<<"a">>)>>)),
      Parsed(DateV),
      Parsed(MapV(<<<<SERVERS, StrV(<<"a">>)>>>>)),
      Parsed(MapV(<<<<TAGS, SeqV(<<DateV>>)>>>>)) }

IndexPerms(n) == {p \in [1..n -> 1..n] : \A i, j \in 1..n : p[i] = p[j] => i = j}

Permuted(seq, p) == [i \in 1..Len(seq) |-> seq[p[i]]]

InitOpenapi ==
    /\ pc = "start"
    /\ yaml_installed \in BOOLEAN
    /\ \/ \E servers \in SeqsUpTo(ServerEntries, MaxServers), extra \in DocExtras :
             \E p \in IndexPerms(Len(servers)) :
                /\ yaml_text = ApiDoc(servers, extra)
                /\ yaml_copy = ApiDoc(Permuted(servers, p), extra)
       \/ yaml_text \in OtherTexts /\ yaml_copy = yaml_text
    /\ yaml_out = NoOutcome /\ copy_out = NoOutcome
    /\ CleanIdle
    /\ BaseIdle
    /\ RssIdle
    /\ PureIdle

NormalizeOriginal ==
    /\ pc = "start"
    /\ yaml_out' = normalize_openapi_c14n_v1(yaml_text)
    /\ pc' = "copy"
    /\ UNCHANGED <<yaml_installed, yaml_text, yaml_copy, copy_out, cleanVars, baseVars, rssVars, pureVars>>

NormalizeCopy ==
    /\ pc = "copy"
    /\ copy_out' = normalize_openapi_c14n_v1(yaml_copy)
    /\ pc' = "done"
    /\ UNCHANGED <<yaml_installed, yaml_text, yaml_copy, yaml_out, cleanVars, baseVars, rssVars, pureVars>>

NextOpenapi == NormalizeOriginal \/ NormalizeCopy

SpecOpenapi == InitOpenapi /\ [][NextOpenapi]_vars

(***************************************************************************)
(* C3                                                                      *)
(***************************************************************************)
\* C3: normalize_openapi_c14n_v1 never raises, and a text that fails YAML
\* parsing, or whose parsed structure fails JSON serialization, is returned
\* unchanged.
C3_FailOpen ==
    pc # "start" =>
        /\ yaml_out.kind # "raise"
        /\ (~yaml_text.parses \/ ~Serializable(yaml_text.value))
              => yaml_out = ReturnInput(yaml_text)

(***************************************************************************)
(* C7                                                                      *)
(***************************************************************************)
ServersOf(text) == MapGet(text.value, SERVERS, NullV).v

\* the entry's "url" field if present, else the empty string
UrlOf(e) == IF e.t = "map" /\ HasKey(e, URL) THEN MapGet(e, URL, NullV) ELSE StrV(<<>>)

\* every entry is a mapping or an empty value, and the url fields are all
\* strings or all integers, or all equal
CanBeOrdered(servers) ==
    /\ \A i \in 1..Len(servers) :
          servers[i].t = "map" \/ servers[i] \in {NullV, StrV(<<>>), SeqV(<<>>)}
    /\ \A i, j \in 1..Len(servers) :
          \/ UrlOf(servers[i]) = UrlOf(servers[j])
          \/ /\ UrlOf(servers[i]).t = UrlOf(servers[j]).t
             /\ UrlOf(servers[i]).t \in {"str", "int"}

\* e1 does not come after e2 in the order by (url, string rendering)
NotAfter(e1, e2) ==
    IF UrlOf(e1) # UrlOf(e2)
    THEN IF UrlOf(e1).t = "int" THEN IntOf(UrlOf(e1).v) < IntOf(UrlOf(e2).v)
         ELSE LexLess(UrlOf(e1).v, UrlOf(e2).v)
    ELSE ~LexLess(PyStr(e2), PyStr(e1))

\* C7 as stated: a document with a servers sequence and a copy with the
\* sequence permuted normalize to the same output (the YAML library being
\* importable).
C7_AsStated ==
    (pc = "done" /\ yaml_installed /\ HasServersList(yaml_text.value))
        => yaml_out = copy_out

\* C7 amended: with the YAML library importable, a document with a servers
\* sequence whose entries are mappings or empty values with url fields that
\* order among themselves, and a copy with the sequence permuted, have the same
\* outcome; an output is the JSON text of the document with the servers in the
\* order by (url or "", string rendering) and nothing else rearranged but the
\* mapping keys.  A sequence that cannot be ordered keeps its order.
C7_ServersOrder ==
    (pc = "done" /\ yaml_installed /\ HasServersList(yaml_text.value)) =>
        IF CanBeOrdered(ServersOf(yaml_text))
        THEN /\ yaml_out = copy_out
             /\ yaml_out.kind = "string" =>
                   \E p \in IndexPerms(Len(ServersOf(yaml_text))) :
                      LET q == Permuted(ServersOf(yaml_text), p)
                      IN  /\ \A i \in 1..(Len(q) - 1) : NotAfter(q[i], q[i + 1])
                          /\ yaml_out.chars =
                                JsonDump(WithServers(yaml_text.value, q), 0) \o <<"LF">>
        ELSE /\ yaml_out.kind = "string" =>
                   yaml_out.chars = JsonDump(yaml_text.value, 0) \o <<"LF">>
             /\ copy_out.kind = "string" =>
                   copy_out.chars = JsonDump(yaml_copy.value, 0) \o <<"LF">>

\* two different orders of a servers list that was out of order normalize to
\* the same JSON text
C7_Witness ==
    /\ pc = "done"
    /\ yaml_installed
    /\ HasServersList(yaml_text.value)
    /\ yaml_text # yaml_copy
    /\ CanBeOrdered(ServersOf(yaml_text))
    /\ ~NotAfter(ServersOf(yaml_text)[1], ServersOf(yaml_text)[2])
    /\ yaml_out.kind = "string"
    /\ yaml_out = copy_out

(***************************************************************************)
(* Feed documents.  The text of each child element of an <item> or <entry> *)
(* is [has, raw]: whether the element is there, and its character data as  *)
(* fetched (references not decoded).  One record shape serves both kinds;  *)
(* the fields of the other kind are absent.  A <link> of an entry is       *)
(* [rel, href], rel being "none" when the attribute is missing.            *)
(***************************************************************************)
Absent == [has |-> FALSE, raw |-> <<>>]
Txt(chars) == [has |-> TRUE, raw |-> chars]
AtomLink(rel, href) == [rel |-> rel, href |-> href]

RssItem(title, link, guid, pubDate, description) ==
    [kind |-> "item", title |-> title, link |-> link, links |-> <<>>,
     guid |-> guid, id |-> Absent, pubDate |-> pubDate, updated |-> Absent,
     published |-> Absent, description |-> description, summary |-> Absent,
     content |-> Absent]

AtomEntry(title, links, id, updated, published, summary, content) ==
    [kind |-> "entry", title |-> title, link |-> Absent, links |-> links,
     guid |-> Absent, id |-> id, pubDate |-> Absent, updated |-> updated,
     published |-> published, description |-> Absent, summary |-> summary,
     content |-> content]

TextFields ==
    {"title", "link", "guid", "id", "pubDate", "updated", "published",
     "description", "summary", "content"}

\* every character data and href of the document
AllTexts(doc) ==
    UNION { {e[f].raw : f \in {g \in TextFields : e[g].has}}
              \cup {e.links[i].href.raw : i \in {j \in 1..Len(e.links) : e.links[j].href.has}}
            : e \in {doc.elements[i] : i \in 1..Len(doc.elements)} }

(***************************************************************************)
(* _norm_ws (normalizers.py 7-11)                                          *)
(***************************************************************************)
\* \s, and what str.strip() strips, among the characters of the model
IsSpace(c) == c \in {" ", "TAB", "LF"}

RECURSIVE CollapseSpace(_)
\* re.sub(r"\s+", " ", s)
CollapseSpace(s) ==
    IF s = <<>> THEN <<>>
    ELSE IF IsSpace(Head(s))
         THEN IF Len(s) > 1 /\ IsSpace(s[2])
              THEN CollapseSpace(Tail(s))
              ELSE <<" ">> \o CollapseSpace(Tail(s))
         ELSE <<Head(s)>> \o CollapseSpace(Tail(s))

RECURSIVE LStrip(_)
LStrip(s) == IF s # <<>> /\ IsSpace(Head(s)) THEN LStrip(Tail(s)) ELSE s

RECURSIVE RStrip(_)
RStrip(s) ==
    IF s # <<>> /\ IsSpace(s[Len(s)]) THEN RStrip(SubSeq(s, 1, Len(s) - 1)) ELSE s

\* str.strip()
PyStrip(s) == RStrip(LStrip(s))

_norm_ws(s) ==
    PyStrip(CollapseSpace(SelectSeq(s, LAMBDA c : c # "ZWSP")))

(***************************************************************************)
(* ET.fromstring (normalizers.py 128, 136) and html.unescape (42, 54, 58)  *)
(***************************************************************************)
\* a character that is no XML 1.0 Char: the parser rejects the document
ParserRejects(c) == Code(c) \in (0..8) \cup {11, 12} \cup (14..31)

\* "&amp;" stands at position i; of the references the parser knows without a
\* DTD, the model's texts hold this one
AmpRefAt(raw, i) == i + 4 <= Len(raw) /\ SubSeq(raw, i, i + 4) = AMP

\* character data the parser accepts
TextParses(raw) ==
    \A i \in 1..Len(raw) :
        ~ParserRejects(raw[i]) /\ (raw[i] = "&" => AmpRefAt(raw, i))

RECURSIVE DecodeRefs(_)
\* the text with each "&amp;" replaced by "&"
DecodeRefs(raw) ==
    IF raw = <<>> THEN <<>>
    ELSE IF AmpRefAt(raw, 1) THEN <<"&">> \o DecodeRefs(SubSeq(raw, 6, Len(raw)))
    ELSE <<Head(raw)>> \o DecodeRefs(Tail(raw))

\* the document with a pass applied to the character data of every element
\* and to every href: "decode" is the parser's decoding of the references,
\* "clean" is _clean_xml_for_et
MapTexts(doc, pass) ==
    LET F(raw) == IF pass = "decode" THEN DecodeRefs(raw) ELSE _clean_xml_for_et(raw)
        OnText(x) == IF x.has THEN Txt(F(x.raw)) ELSE x
        OnElement(e) ==
            [f \in DOMAIN e |->
                IF f \in TextFields THEN OnText(e[f])
                ELSE IF f = "links"
                     THEN [i \in 1..Len(e.links) |->
                             AtomLink(e.links[i].rel, OnText(e.links[i].href))]
                     ELSE e[f]]
    IN  [elements |-> [i \in 1..Len(doc.elements) |-> OnElement(doc.elements[i])],
         broken |-> doc.broken]

\* html.unescape: a reference is decoded, anything else is left as it is
html_unescape(raw) == DecodeRefs(raw)

\* ET.fromstring(text): [ok, tree]; ok is FALSE when it raises ParseError
ET_fromstring(doc) ==
    IF ~doc.broken /\ \A raw \in AllTexts(doc) : TextParses(raw)
    THEN [ok |-> TRUE, tree |-> MapTexts(doc, "decode")]
    ELSE NoRoot

\* _clean_xml_for_et(xml_text) on the whole document: the markup holds no '&'
\* and no control character, and no reference spans a tag, so the pass acts
\* on each character data by itself and leaves the markup as it is
CleanDocument(doc) == MapTexts(doc, "clean")

(***************************************************************************)
(* The structural extraction (normalizers.py 144-184).  A FeedItem is      *)
(* [title, link, id, date, body].                                          *)
(***************************************************************************)
\* findtext(tag) or "" ; findtext(tag, default="")
FindText(x) == IF x.has THEN x.raw ELSE <<>>

ElementsOfKind(tree, kind) == SelectSeq(tree.elements, LAMBDA e : e.kind = kind)

\* lines 149-160
StructuralRssItem(e) ==
    [title |-> _norm_ws(FindText(e.title)),
     link |-> _norm_ws(FindText(e.link)),
     id |-> _norm_ws(FindText(e.guid)),
     date |-> _norm_ws(FindText(e.pubDate)),
     body |-> _norm_ws(FindText(e.description))]

\* lines 166-170: the href of the first link whose rel, "alternate" when
\* missing, is "alternate"
FirstAlternateHref(links) ==
    LET alt == {i \in 1..Len(links) : links[i].rel \in {"none", "alternate"}}
    IN  IF alt = {} THEN <<>>
        ELSE FindText(links[CHOOSE i \in alt : \A j \in alt : i <= j].href)

\* lines 164-184
StructuralAtomItem(e) ==
    [title |-> _norm_ws(FindText(e.title)),
     link |-> _norm_ws(FirstAlternateHref(e.links)),
     id |-> _norm_ws(FindText(e.id)),
     date |-> _norm_ws(FindText(e.updated)),
     body |-> _norm_ws(IF FindText(e.summary) # <<>>
                       THEN FindText(e.summary) ELSE FindText(e.content))]

StructuralItems(tree) ==
    LET rss == ElementsOfKind(tree, "item")
        atom == ElementsOfKind(tree, "entry")
    IN  [i \in 1..Len(rss) |-> StructuralRssItem(rss[i])]
            \o [i \in 1..Len(atom) |-> StructuralAtomItem(atom[i])]

(***************************************************************************)
(* The regex extraction (normalizers.py 26-97) on the text as fetched.     *)
(* The model's character data holds no '<', so the CDATA unwrapping of      *)
(* line 41 and _strip_tags change nothing.                                  *)
(***************************************************************************)
max_items == 200

\* _extract_tag_text(block, tag): the first <tag>...</tag> of the block
_extract_tag_text(e, tag) ==
    IF ~e[tag].has THEN <<>> ELSE _norm_ws(html_unescape(e[tag].raw))

\* _extract_atom_link_href(block): the first <link> with rel="alternate" and a
\* non-empty href, else the first <link> with a non-empty href
_extract_atom_link_href(e) ==
    LET withHref == {i \in 1..Len(e.links) :
                       e.links[i].href.has /\ e.links[i].href.raw # <<>>}
        alt == {i \in withHref : e.links[i].rel = "alternate"}
        First(S) == CHOOSE i \in S : \A j \in S : i <= j
    IN  IF alt # {} THEN _norm_ws(html_unescape(e.links[First(alt)].href.raw))
        ELSE IF withHref # {}
             THEN _norm_ws(html_unescape(e.links[First(withHref)].href.raw))
             ELSE <<>>

\* s1 or s2
OrElse(s1, s2) == IF s1 # <<>> THEN s1 ELSE s2

\* lines 69-80
FallbackRssItem(e) ==
    [title |-> _extract_tag_text(e, "title"),
     link |-> _extract_tag_text(e, "link"),
     id |-> _extract_tag_text(e, "guid"),
     date |-> _extract_tag_text(e, "pubDate"),
     body |-> _extract_tag_text(e, "description")]

\* lines 84-97
FallbackAtomItem(e) ==
    [title |-> _extract_tag_text(e, "title"),
     link |-> OrElse(_extract_atom_link_href(e), _extract_tag_text(e, "link")),
     id |-> _extract_tag_text(e, "id"),
     date |-> OrElse(_extract_tag_text(e, "updated"), _extract_tag_text(e, "published")),
     body |-> OrElse(_extract_tag_text(e, "summary"), _extract_tag_text(e, "content"))]

\* seq[:n]
Take(seq, n) == SubSeq(seq, 1, IF Len(seq) < n THEN Len(seq) ELSE n)

FallbackItems(doc) ==
    LET rss == Take(ElementsOfKind(doc, "item"), max_items)
        atom == Take(ElementsOfKind(doc, "entry"), max_items)
    IN  [i \in 1..Len(rss) |-> FallbackRssItem(rss[i])]
            \o [i \in 1..Len(atom) |-> FallbackAtomItem(atom[i])]

(***************************************************************************)
(* items.sort(key=(link, id, title)) (normalizers.py 99, 187)              *)
(***************************************************************************)
\* the key tuple of one item is less than that of another
ItemKeyLess(a, b) ==
    IF a.link # b.link THEN LexLess(a.link, b.link)
    ELSE IF a.id # b.id THEN LexLess(a.id, b.id)
    ELSE LexLess(a.title, b.title)

RECURSIVE InsertItem(_, _)
InsertItem(sorted, it) ==
    IF sorted = <<>> THEN <<it>>
    ELSE IF ItemKeyLess(it, Head(sorted))
         THEN <<it>> \o sorted
         ELSE <<Head(sorted)>> \o InsertItem(Tail(sorted), it)

RECURSIVE SortItems(_)
\* list.sort is stable: items with equal keys keep their order
SortItems(list) ==
    IF list = <<>> THEN <<>>
    ELSE InsertItem(SortItems(SubSeq(list, 1, Len(list) - 1)), list[Len(list)])

(***************************************************************************)
(* The rendering (normalizers.py 101-112, 189-199).  The canonical string  *)
(* is a sequence of characters in which "#ITEM" and the five labels        *)
(* "title:", ..., "body:" stand as one element each.                        *)
(***************************************************************************)
\* body[:body_limit] if body_limit and body else ""  (body_limit >= 0)
TruncateBody(body, limit) ==
    IF limit # 0 /\ body # <<>> THEN Take(body, limit) ELSE <<>>

\* the six lines appended for one item
ItemLines(it, limit) ==
    << <<"#ITEM">>,
       <<"title:", " ">> \o it.title,
       <<"link:", " ">> \o it.link,
       <<"id:", " ">> \o it.id,
       <<"date:", " ">> \o it.date,
       <<"body:", " ">> \o TruncateBody(it.body, limit) >>

\* "\n".join(out).strip() + "\n"
RenderItems(list, limit) ==
    PyStrip(JoinWith(Concat([i \in 1..Len(list) |-> ItemLines(list[i], limit)]), <<"LF">>))
        \o <<"LF">>

\* _normalize_rss_min_fallback(xml_text, body_limit)
_normalize_rss_min_fallback(doc, limit) ==
    ReturnString(RenderItems(SortItems(FallbackItems(doc)), limit))

(***************************************************************************)
(* normalize_rss_min (normalizers.py 115-199) as one call                  *)
(***************************************************************************)
\* lines 126-138: the tree of the strict parse, else of the parse of the
\* repaired text, else none
ParseWithRepair(doc) ==
    IF ET_fromstring(doc).ok THEN ET_fromstring(doc)
    ELSE ET_fromstring(CleanDocument(doc))

\* mutant: the items list outlives the call (a list kept as a default
\* argument), so the items of the previous call are rendered again
normalize_rss_min_leaky(doc, limit) ==
    LET Extracted(d) ==
            IF ParseWithRepair(d).ok THEN StructuralItems(ParseWithRepair(d).tree)
            ELSE FallbackItems(d)
    IN  ReturnString(RenderItems(SortItems(Extracted(last_call.feed) \o Extracted(doc)),
                                 limit))

normalize_rss_min(doc, limit) ==
    IF ParseWithRepair(doc).ok
    THEN ReturnString(RenderItems(SortItems(StructuralItems(ParseWithRepair(doc).tree)),
                                  limit))
    ELSE _normalize_rss_min_fallback(doc, limit)

(***************************************************************************)
(* SpecRss: one call of normalize_rss_min, stage by stage                  *)
(***************************************************************************)
FeedElements ==
    { RssItem(Txt(<<"a">>), Txt(<<"k">>), Txt(<<"g">>), Txt(<<"m">>),
              Txt(<<"a", " ", "b">>)),
      \* the same link, guid and title, another date and body
      RssItem(Txt(<<"a">>), Txt(<<"k">>), Txt(<<"g">>), Txt(<<"n">>), Txt(<<"b">>)),
      \* a bare '&' in the title; no guid, date or description
      RssItem(Txt(<<"a", " ", "&", " ", "b">>), Txt(<<"l">>), Absent, Absent, Absent),
      \* an escaped '&'; whitespace noise in the description
      RssItem(Txt(<<"a", "&", "a", "m", "p", ";", "b">>), Txt(<<"j">>), Txt(<<"h">>),
              Txt(<<"m">>), Txt(<<" ", "a", "ZWSP", " ", "LF", "b", " ">>)),
      \* a control character in the title
      RssItem(Txt(<<"a", "NUL">>), Txt(<<"k">>), Txt(<<"h">>), Txt(<<"m">>),
              Txt(<<"a", "b">>)),
      \* no link
      RssItem(Txt(<<"b">>), Absent, Txt(<<"h">>), Txt(<<"n">>), Txt(<<"a", "b", "c">>)),
      AtomEntry(Txt(<<"a">>),
                <<AtomLink("self", Txt(<<"s">>)), AtomLink("alternate", Txt(<<"k">>)),
                  AtomLink("none", Txt(<<"l">>))>>,
                Txt(<<"i">>), Txt(<<"u">>), Txt(<<"p">>), Txt(<<"s">>), Txt(<<"c">>)),
      \* published and content only
      AtomEntry(Txt(<<"b">>),
                <<AtomLink("none", Txt(<<"l">>)), AtomLink("alternate", Txt(<<"k">>))>>,
                Txt(<<"i">>), Absent, Txt(<<"p">>), Absent, Txt(<<"c", " ", "d">>)),
      \* a bare '&' in the summary; no alternate link
      AtomEntry(Txt(<<"a">>), <<AtomLink("self", Txt(<<"s">>))>>,
                Txt(<<"j">>), Txt(<<"u">>), Absent, Txt(<<"s", "&">>), Absent),
      \* no link, no date, no body
      AtomEntry(Txt(<<"c">>), <<>>, Txt(<<"j">>), Absent, Absent, Absent, Absent) }

FeedDocuments ==
    {[elements |-> es, broken |-> b] :
        es \in SeqsUpTo(FeedElements, MaxItems), b \in BOOLEAN}

InitRss ==
    /\ pc = "start"
    /\ rss_text \in FeedDocuments
    /\ body_limit \in 0..MaxLimit
    /\ root = NoRoot
    /\ stages = <<>> /\ extracted = <<>> /\ items = <<>> /\ result = NoOutcome
    /\ CleanIdle
    /\ BaseIdle
    /\ YamlIdle
    /\ PureIdle

\* mutant: the repair pass runs whatever the strict parse gave
AlwaysRepair(parsed) == "repair"

\* line 133: the repair pass runs if the strict parse gave no root
AfterStrict(parsed) == IF parsed.ok THEN "extract" ELSE "repair"

\* line 141: the regex extraction runs if the parse of the repaired text gave
\* no root either
AfterRepair(parsed) == IF parsed.ok THEN "extract" ELSE "fallback"

\* lines 126-130
StrictParse ==
    /\ pc = "start"
    /\ root' = ET_fromstring(rss_text)
    /\ stages' = Append(stages, "strict")
    /\ pc' = AfterStrict(root')
    /\ UNCHANGED <<rss_text, body_limit, extracted, items, result>>
    /\ UNCHANGED <<cleanVars, baseVars, yamlVars, pureVars>>

\* lines 133-138
RepairAndReparse ==
    /\ pc = "repair"
    /\ root' = ET_fromstring(CleanDocument(rss_text))
    /\ stages' = Append(stages, "repair")
    /\ pc' = AfterRepair(root')
    /\ UNCHANGED <<rss_text, body_limit, extracted, items, result>>
    /\ UNCHANGED <<cleanVars, baseVars, yamlVars, pureVars>>

\* lines 141-142 and 62-112
RegexFallback ==
    /\ pc = "fallback"
    /\ extracted' = FallbackItems(rss_text)
    /\ items' = SortItems(extracted')
    /\ result' = ReturnString(RenderItems(items', body_limit))
    /\ stages' = Append(stages, "regex")
    /\ pc' = "done"
    /\ UNCHANGED <<rss_text, body_limit, root>>
    /\ UNCHANGED <<cleanVars, baseVars, yamlVars, pureVars>>

\* lines 144-199
StructuralExtract ==
    /\ pc = "extract"
    /\ extracted' = StructuralItems(root.tree)
    /\ items' = SortItems(extracted')
    /\ result' = ReturnString(RenderItems(items', body_limit))
    /\ stages' = Append(stages, "structural")
    /\ pc' = "done"
    /\ UNCHANGED <<rss_text, body_limit, root>>
    /\ UNCHANGED <<cleanVars, baseVars, yamlVars, pureVars>>

NextRss == StrictParse \/ RepairAndReparse \/ RegexFallback \/ StructuralExtract

SpecRss == InitRss /\ [][NextRss]_vars

(***************************************************************************)
(* C1                                                                      *)
(***************************************************************************)
Ran(stage) == \E i \in 1..Len(stages) : stages[i] = stage

\* the text, or a text given, is one the parser accepts: its markup is
\* complete, it holds no character outside XML 1.0 and no '&' but in "&amp;"
WellFormed(doc) ==
    /\ ~doc.broken
    /\ \A raw \in AllTexts(doc) :
          \A i \in 1..Len(raw) :
             /\ Code(raw[i]) \notin (0..8) \cup {11, 12} \cup (14..31)
             /\ raw[i] = "&" => (i + 4 <= Len(raw) /\ SubSeq(raw, i, i + 4) = AMP)

C2_OrderInvariance ==
    (pc = "done" /\ \A i \in 1..Len(rss_text.elements) :
                        rss_text.elements[i].kind = "item")
        => \A p \in IndexPerms(Len(rss_text.elements)) :
              normalize_rss_min([elements |-> Permuted(rss_text.elements, p),
                                 broken |-> rss_text.broken], body_limit) = result

(***************************************************************************)
(* C5                                                                      *)
(***************************************************************************)
\* the field the claim names first, or the second one when the first is
\* absent (an empty first field counts as absent)
Preferred(first, second) ==
    IF first.has /\ first.raw # <<>> THEN first.raw ELSE FindText(second)

\* the link children whose rel, "alternate" when missing, is "alternate"
AlternateLinks(e) ==
    SelectSeq(e.links, LAMBDA lk : lk.rel = "alternate" \/ lk.rel = "none")

\* the item the claim gives for an Atom entry
ClaimedAtomItem(e) ==
    [title |-> _norm_ws(FindText(e.title)),
     link |-> _norm_ws(IF AlternateLinks(e) = <<>> THEN <<>>
                       ELSE FindText(AlternateLinks(e)[1].href)),
     id |-> _norm_ws(FindText(e.id)),
     date |-> _norm_ws(Preferred(e.updated, e.published)),
     body |-> _norm_ws(Preferred(e.summary, e.content))]

\* C5: on the structural path every Atom entry is extracted with its title,
\* the href of its first alternate link, its id, its updated value or else
\* its published value, and its summary or else its content.
C5_AtomExtraction ==
    (pc = "done" /\ Ran("structural")) =>
        LET entries == ElementsOfKind(root.tree, "entry")
            before == Len(ElementsOfKind(root.tree, "item"))
        IN  \A k \in 1..Len(entries) :
               extracted[before + k] = ClaimedAtomItem(entries[k])

(***************************************************************************)
(* C6, C8                                                                  *)
(***************************************************************************)
RECURSIVE SplitLines(_)
\* chars.split("\n")
SplitLines(chars) ==
    IF \A i \in 1..Len(chars) : chars[i] # "LF" THEN <<chars>>
    ELSE LET n == CHOOSE i \in 1..Len(chars) :
                     chars[i] = "LF" /\ \A j \in 1..(i - 1) : chars[j] # "LF"
         IN  <<SubSeq(chars, 1, n - 1)>> \o SplitLines(SubSeq(chars, n + 1, Len(chars)))

\* the body the output shows for its k-th item: what follows "body:" and one
\* space on the sixth line of the record
EmittedBody(chars, k) ==
    LET line == SplitLines(chars)[6 * k]
    IN  IF Len(line) >= 2 THEN SubSeq(line, 3, Len(line)) ELSE <<>>

\* C6: on both paths a body of at most body_limit characters is emitted as it
\* is, and a longer one as its first body_limit characters.
C6_Truncation ==
    pc = "done" =>
        \A k \in 1..Len(items) :
            EmittedBody(result.chars, k) =
                IF Len(items[k].body) <= body_limit THEN items[k].body
                ELSE SubSeq(items[k].body, 1, body_limit)

\* the six lines of the claim for an item, whatever its place in the list
RecordOf(it, limit) ==
    <<"#ITEM", "LF", "title:", " ">> \o it.title
        \o <<"LF", "link:", " ">> \o it.link
        \o <<"LF", "id:", " ">> \o it.id
        \o <<"LF", "date:", " ">> \o it.date
        \o <<"LF", "body:", " ">> \o TruncateBody(it.body, limit)

\* C8: the output is the records of the items, six lines each in the fixed
\* order, joined by newlines and ended by a newline; the rendering of an item
\* does not depend on its place.
C8_RecordFormat ==
    pc = "done" =>
        result.chars =
            JoinWith([i \in 1..Len(items) |-> RecordOf(items[i], body_limit)], <<"LF">>)
                \o <<"LF">>

(***************************************************************************)
(* SpecPure: the watcher normalizes one fetched text after another, each   *)
(* with the kind its target declares (targets.py)                          *)
(***************************************************************************)
TARGETS == <<"rss_min", "rss_min", "openapi_c14n_v1">>

PureFeeds ==
    { [elements |-> <<RssItem(Txt(<<"a">>), Txt(<<"k">>), Txt(<<"g">>), Txt(<<"m">>),
                              Txt(<<"a", " ", "b">>))>>,
       broken |-> FALSE],
      [elements |-> <<AtomEntry(Txt(<<"a">>), <<AtomLink("self", Txt(<<"s">>))>>,
                                Txt(<<"j">>), Txt(<<"u">>), Absent, Txt(<<"s", "&">>),
                                Absent)>>,
       broken |-> TRUE] }

PureYamls ==
    { [parses |-> FALSE, value |-> NullV, id |-> 1],
      ApiDoc(<<MapV(<<<<URL, StrV(<<"b">>)>>>>), MapV(<<<<URL, StrV(<<"a">>)>>>>)>>, <<>>),
      ApiDoc(<<>>, <<<<INFO, DateV>>>>) }

InitPure ==
    /\ pc = "start"
    /\ yaml_installed \in BOOLEAN
    /\ yaml_text = NoText /\ yaml_copy = NoText
    /\ yaml_out = NoOutcome /\ copy_out = NoOutcome
    /\ history = {} /\ last_call = NoCall
    /\ CleanIdle
    /\ BaseIdle
    /\ RssIdle

Record(call) ==
    /\ last_call' = call
    /\ history' = IF last_call = NoCall THEN history ELSE history \cup {last_call}
    /\ pc' = "called"
    /\ UNCHANGED <<cleanVars, baseVars, yamlVars, rssVars>>

\* a target of kind rss_min is fetched and normalized
NormalizeFeed ==
    \E target \in {i \in 1..Len(TARGETS) : TARGETS[i] = "rss_min"},
       doc \in PureFeeds, limit \in {0, MaxLimit} :
        Record([target |-> target, kind |-> TARGETS[target], feed |-> doc,
                yaml |-> NoText, limit |-> limit,
                outcome |-> normalize_rss_min(doc, limit)])

\* a target of kind openapi_c14n_v1 is fetched and normalized
NormalizeApi ==
    \E target \in {i \in 1..Len(TARGETS) : TARGETS[i] = "openapi_c14n_v1"},
       text \in PureYamls :
        Record([target |-> target, kind |-> TARGETS[target], feed |-> EmptyFeed,
                yaml |-> text, limit |-> 0,
                outcome |-> normalize_openapi_c14n_v1(text)])

NextPure == NormalizeFeed \/ NormalizeApi

SpecPure == InitPure /\ [][NextPure]_vars

(***************************************************************************)
(* C4                                                                      *)
(***************************************************************************)
SameInput(c1, c2) ==
    c1.kind = c2.kind /\ c1.feed = c2.feed /\ c1.yaml = c2.yaml /\ c1.limit = c2.limit

====
